---- MODULE Spec2Model ----
(***************************************************************************)
(* A model of stale_repos.py: main() authenticates, reads the threshold,   *)
(* scans the repository listing (get_inactive_repos, is_repo_exempt,       *)
(* get_active_date) and hands the records to output_to_json and            *)
(* write_to_markdown.                                                      *)
(*                                                                         *)
(* Text is modelled as a sequence of one-character strings, so that        *)
(* fnmatch, str.replace, str.split, str.lower and int() are computed on    *)
(* the characters.  An instant is a number of half days; a calendar date   *)
(* is a number of days.                                                    *)
(***************************************************************************)
EXTENDS Integers, Sequences, FiniteSets, TLC

VARIABLES
    env,               \* os.environ as the process sees it (never written)
    now,               \* datetime.now(timezone.utc), in half days
    repos,             \* the repositories the listing yields, in order
    pc,                \* position of the run
    github_connection, \* main's github_connection
    i,                 \* number of repositories the for loop has taken
    exempt_repos,      \* get_inactive_repos' exempt_repos
    exempt_topics,     \* get_inactive_repos' exempt_topics
    inactive_repos,    \* the list of (url, days, date, visibility) tuples
    out,               \* lines printed to standard output
    trace,             \* requests made to the API and function returns
    json_file,         \* text written to stale_repos.json
    md_file,           \* text written to stale_repos.md
    gh_output,         \* lines appended to $GITHUB_OUTPUT
    probe              \* argument and result of a function called directly

vars == <<env, now, repos, pc, github_connection, i, exempt_repos,
          exempt_topics, inactive_repos, out, trace, json_file, md_file,
          gh_output, probe>>

(***************************************************************************)
(* Bounds of the model.                                                    *)
(***************************************************************************)
MaxRepos == 2
MaxRecords == 3
MaxPatLen == 3

(***************************************************************************)
(* Values.                                                                 *)
(***************************************************************************)
None == <<"None">>

RECURSIVE SeqsUpTo(_, _)
SeqsUpTo(S, n) ==
    IF n = 0 THEN {<<>>}
    ELSE LET shorter == SeqsUpTo(S, n - 1)
         IN  shorter \cup {Append(s, x) : s \in {t \in shorter : Len(t) = n - 1}, x \in S}

Range(s) == {s[k] : k \in DOMAIN s}

\* Python truthiness of an optional string or list
Truthy(v) == v # None /\ v # <<>>

(***************************************************************************)
(* str.replace(" ", ""), str.split(","), str.strip(), str.lower(), int().  *)
(***************************************************************************)
RemoveSpaces(s) == SelectSeq(s, LAMBDA c : c # " ")

RECURSIVE SplitFrom(_, _, _)
SplitFrom(s, k, cur) ==
    IF k > Len(s) THEN <<cur>>
    ELSE IF s[k] = "," THEN <<cur>> \o SplitFrom(s, k + 1, <<>>)
    ELSE SplitFrom(s, k + 1, Append(cur, s[k]))

SplitComma(s) == SplitFrom(s, 1, <<>>)

RECURSIVE LStrip(_)
LStrip(s) == IF s # <<>> /\ Head(s) = " " THEN LStrip(Tail(s)) ELSE s

RECURSIVE RStrip(_)
RStrip(s) ==
    IF s # <<>> /\ s[Len(s)] = " " THEN RStrip(SubSeq(s, 1, Len(s) - 1)) ELSE s

Strip(s) == RStrip(LStrip(s))

LowerChar(c) ==
    CASE c = "P" -> "p" [] c = "D" -> "d" [] c = "B" -> "b"
      [] c = "U" -> "u" [] c = "C" -> "c" [] c = "A" -> "a"
      [] OTHER -> c

Lower(s) == [k \in DOMAIN s |-> LowerChar(s[k])]

Digits == <<"0", "1", "2", "3", "4", "5", "6", "7", "8", "9">>

DigitValue(c) == (CHOOSE k \in DOMAIN Digits : Digits[k] = c) - 1

RECURSIVE DigitsValue(_)
DigitsValue(s) ==
    IF s = <<>> THEN 0
    ELSE 10 * DigitsValue(SubSeq(s, 1, Len(s) - 1)) + DigitValue(s[Len(s)])

IsDigits(s) == s # <<>> /\ \A k \in DOMAIN s : s[k] \in Range(Digits)

Unsigned(s) == IF s # <<>> /\ Head(s) \in {"-", "+"} THEN Tail(s) ELSE s

\* int(text): does it return, and what
IntOk(s) == s # None /\ IsDigits(Unsigned(Strip(s)))

IntOf(s) ==
    LET t == Strip(s)
    IN  IF Head(t) = "-" THEN 0 - DigitsValue(Tail(t)) ELSE DigitsValue(Unsigned(t))

(***************************************************************************)
(* fnmatch.fnmatchcase: the pattern is translated character by character   *)
(* ("*" any run, "?" one character, "[...]" a class, "[" without a closing *)
(* "]" a literal) and must match the whole name.                           *)
(***************************************************************************)
Ascii == <<" ", "!", "*", ",", "-", "0", "1", "2", "3", "4", "5", "6", "7",
           "8", "9", "?", "A", "B", "C", "D", "P", "U", "[", "]", "_", "a",
           "b", "c", "d", "e", "f", "h", "k", "n", "o", "p", "r", "s", "t",
           "u", "x">>

Ord(c) == CHOOSE k \in DOMAIN Ascii : Ascii[k] = c

RECURSIVE SkipToBracket(_, _)
SkipToBracket(pat, j) ==
    IF j > Len(pat) THEN 0
    ELSE IF pat[j] = "]" THEN j
    ELSE SkipToBracket(pat, j + 1)

\* index of the "]" closing the class opened at pat[p], 0 when there is none
ClassEnd(pat, p) ==
    LET j1 == IF p + 1 <= Len(pat) /\ pat[p + 1] = "!" THEN p + 2 ELSE p + 1
        j2 == IF j1 <= Len(pat) /\ pat[j1] = "]" THEN j1 + 1 ELSE j1
    IN  SkipToBracket(pat, j2)

RECURSIVE ClassHas(_, _, _)
ClassHas(c, body, k) ==
    IF k > Len(body) THEN FALSE
    ELSE IF k + 2 <= Len(body) /\ body[k + 1] = "-"
         THEN (Ord(body[k]) <= Ord(c) /\ Ord(c) <= Ord(body[k + 2]))
              \/ ClassHas(c, body, k + 3)
         ELSE c = body[k] \/ ClassHas(c, body, k + 1)

InClass(c, stuff) ==
    IF Head(stuff) = "!" THEN ~ClassHas(c, Tail(stuff), 1)
    ELSE ClassHas(c, stuff, 1)

RECURSIVE GlobFrom(_, _, _, _)
GlobFrom(name, n, pat, p) ==
    IF p > Len(pat) THEN n > Len(name)
    ELSE IF pat[p] = "*"
         THEN GlobFrom(name, n, pat, p + 1)
              \/ (n <= Len(name) /\ GlobFrom(name, n + 1, pat, p))
    ELSE IF pat[p] = "?"
         THEN n <= Len(name) /\ GlobFrom(name, n + 1, pat, p + 1)
    ELSE IF pat[p] = "[" /\ ClassEnd(pat, p) # 0
         THEN /\ n <= Len(name)
              /\ InClass(name[n], SubSeq(pat, p + 1, ClassEnd(pat, p) - 1))
              /\ GlobFrom(name, n + 1, pat, ClassEnd(pat, p) + 1)
    ELSE n <= Len(name) /\ name[n] = pat[p] /\ GlobFrom(name, n + 1, pat, p + 1)

fnmatchcase_IgnoreCase(name, pat) == GlobFrom(Lower(name), 1, Lower(pat), 1)

fnmatchcase(name, pat) == GlobFrom(name, 1, pat, 1)

(***************************************************************************)
(* Printed lines and trace events, all of one shape.                       *)
(***************************************************************************)
Line(kind, url, n, list) == [kind |-> kind, url |-> url, n |-> n, list |-> list]

\* data: the topic names or the timestamp an answer carried
Event(what, url, result, data) ==
    [what |-> what, url |-> url, result |-> result, data |-> data]

(***************************************************************************)
(* is_repo_exempt(repo, exempt_repos, exempt_topics).  resp is what        *)
(* repo.topics() answers if it is called: [kind |-> "ok", names |-> ...],  *)
(* a NotFoundError (status 404) or another GitHubException.                *)
(***************************************************************************)
NameMatches(repo, patterns) ==
    patterns # <<>> /\ \E k \in DOMAIN patterns : fnmatchcase(repo.name, patterns[k])

TopicMatches(resp, topics) ==
    \E k \in DOMAIN resp.names : resp.names[k] \in Range(topics)

\* the same without the except clause of lines 87-91
is_repo_exempt_NoExcept(repo, patterns, topics, resp) ==
    IF NameMatches(repo, patterns)
    THEN [ret |-> TRUE, raised |-> FALSE,
          out |-> <<Line("exempt", repo.html_url, 0, <<>>)>>,
          trace |-> <<>>]
    ELSE IF topics = <<>>
    THEN [ret |-> FALSE, raised |-> FALSE, out |-> <<>>, trace |-> <<>>]
    ELSE IF resp.kind = "ok"
    THEN IF TopicMatches(resp, topics)
         THEN [ret |-> TRUE, raised |-> FALSE,
               out |-> <<Line("exempt", repo.html_url, 0, <<>>)>>,
               trace |-> <<Event("topics", repo.html_url, "ok", resp.names)>>]
         ELSE [ret |-> FALSE, raised |-> FALSE, out |-> <<>>,
               trace |-> <<Event("topics", repo.html_url, "ok", resp.names)>>]
    ELSE [ret |-> FALSE, raised |-> TRUE, out |-> <<>>,
          trace |-> <<Event("topics", repo.html_url, resp.kind, <<>>)>>]

is_repo_exempt(repo, patterns, topics, resp) ==
    IF NameMatches(repo, patterns)
    THEN [ret |-> TRUE, raised |-> FALSE,
          out |-> <<Line("exempt", repo.html_url, 0, <<>>)>>,
          trace |-> <<>>]
    ELSE IF topics = <<>>
    THEN [ret |-> FALSE, raised |-> FALSE, out |-> <<>>, trace |-> <<>>]
    ELSE IF resp.kind = "ok"
    THEN IF TopicMatches(resp, topics)
         THEN [ret |-> TRUE, raised |-> FALSE,
               out |-> <<Line("exempt", repo.html_url, 0, <<>>)>>,
               trace |-> <<Event("topics", repo.html_url, "ok", resp.names)>>]
         ELSE [ret |-> FALSE, raised |-> FALSE, out |-> <<>>,
               trace |-> <<Event("topics", repo.html_url, "ok", resp.names)>>]
    ELSE IF resp.kind = "NotFoundError"
    THEN [ret |-> FALSE, raised |-> FALSE,
          out |-> IF resp.code = 404
                  THEN <<Line("no_topics", repo.html_url, 0, <<>>)>>
                  ELSE <<>>,
          trace |-> <<Event("topics", repo.html_url, resp.kind, <<>>)>>]
    ELSE [ret |-> FALSE, raised |-> TRUE, out |-> <<>>,
          trace |-> <<Event("topics", repo.html_url, resp.kind, <<>>)>>]

(***************************************************************************)
(* Timestamps as the API gives them, "ddTh": day dd, half day h.           *)
(* dateutil's parse gives the instant, date() the calendar day.            *)
(***************************************************************************)
parse(ts) == 2 * DigitsValue(SubSeq(ts, 1, 2)) + DigitValue(ts[4])

DateOf(instant) == instant \div 2

\* (datetime.now(timezone.utc) - active_date).days
DaysBetween(later, earlier) == (later - earlier) \div 2

(***************************************************************************)
(* get_active_date(repo).  method is ACTIVITY_METHOD as set in the         *)
(* environment; resp is what repo.branch(repo.default_branch) answers if   *)
(* it is called: the committer date of the tip, or a GitHubException.      *)
(***************************************************************************)
S_pushed == <<"p", "u", "s", "h", "e", "d">>
S_default_branch_updated ==
    <<"d", "e", "f", "a", "u", "l", "t", "_", "b", "r", "a", "n", "c", "h",
      "_", "u", "p", "d", "a", "t", "e", "d">>

activity_method(method) == Lower(IF method = None THEN S_pushed ELSE method)

\* the same without the except clause of lines 177-179
get_active_date_NoExcept(repo, method, resp) ==
    IF activity_method(method) = S_default_branch_updated
    THEN IF resp.kind = "ok"
         THEN [absent |-> FALSE, date |-> parse(resp.date), raised |-> FALSE,
               out |-> <<>>,
               trace |-> <<Event("branch", repo.html_url, "ok", <<resp.date>>)>>]
         ELSE [absent |-> TRUE, date |-> 0, raised |-> TRUE,
               out |-> <<>>,
               trace |-> <<Event("branch", repo.html_url, resp.kind, <<>>)>>]
    ELSE IF activity_method(method) = S_pushed
    THEN IF repo.pushed_at = None
         THEN [absent |-> TRUE, date |-> 0, raised |-> FALSE,
               out |-> <<>>, trace |-> <<>>]
         ELSE [absent |-> FALSE, date |-> parse(repo.pushed_at),
               raised |-> FALSE, out |-> <<>>, trace |-> <<>>]
    ELSE [absent |-> TRUE, date |-> 0, raised |-> TRUE,
          out |-> <<>>, trace |-> <<>>]

\* the same with the None test of lines 167-168 made inside parse
get_active_date_NoneParsed(repo, method, resp) ==
    IF activity_method(method) = S_default_branch_updated
    THEN IF resp.kind = "ok"
         THEN [absent |-> FALSE, date |-> parse(resp.date), raised |-> FALSE,
               out |-> <<>>,
               trace |-> <<Event("branch", repo.html_url, "ok", <<resp.date>>)>>]
         ELSE [absent |-> TRUE, date |-> 0, raised |-> FALSE,
               out |-> <<Line("date_exception", repo.html_url, 0, <<>>)>>,
               trace |-> <<Event("branch", repo.html_url, resp.kind, <<>>)>>]
    ELSE IF activity_method(method) = S_pushed
    THEN IF repo.pushed_at = None
         THEN [absent |-> TRUE, date |-> 0, raised |-> FALSE,
               out |-> <<Line("date_exception", repo.html_url, 0, <<>>)>>,
               trace |-> <<>>]
         ELSE [absent |-> FALSE, date |-> parse(repo.pushed_at),
               raised |-> FALSE, out |-> <<>>, trace |-> <<>>]
    ELSE [absent |-> TRUE, date |-> 0, raised |-> TRUE,
          out |-> <<>>, trace |-> <<>>]

\* the same asking for the branch a second time when the first request failed
get_active_date_Retries(repo, method, resp) ==
    IF activity_method(method) = S_default_branch_updated
    THEN IF resp.kind = "ok"
         THEN [absent |-> FALSE, date |-> parse(resp.date), raised |-> FALSE,
               out |-> <<>>,
               trace |-> <<Event("branch", repo.html_url, "ok", <<resp.date>>)>>]
         ELSE [absent |-> TRUE, date |-> 0, raised |-> FALSE,
               out |-> <<Line("date_exception", repo.html_url, 0, <<>>)>>,
               trace |-> <<Event("branch", repo.html_url, resp.kind, <<>>),
                           Event("branch", repo.html_url, resp.kind, <<>>)>>]
    ELSE IF activity_method(method) = S_pushed
    THEN IF repo.pushed_at = None
         THEN [absent |-> TRUE, date |-> 0, raised |-> FALSE,
               out |-> <<>>, trace |-> <<>>]
         ELSE [absent |-> FALSE, date |-> parse(repo.pushed_at),
               raised |-> FALSE, out |-> <<>>, trace |-> <<>>]
    ELSE [absent |-> TRUE, date |-> 0, raised |-> TRUE,
          out |-> <<>>, trace |-> <<>>]

get_active_date(repo, method, resp) ==
    IF activity_method(method) = S_default_branch_updated
    THEN IF resp.kind = "ok"
         THEN [absent |-> FALSE, date |-> parse(resp.date), raised |-> FALSE,
               out |-> <<>>,
               trace |-> <<Event("branch", repo.html_url, "ok", <<resp.date>>)>>]
         ELSE [absent |-> TRUE, date |-> 0, raised |-> FALSE,
               out |-> <<Line("date_exception", repo.html_url, 0, <<>>)>>,
               trace |-> <<Event("branch", repo.html_url, resp.kind, <<>>)>>]
    ELSE IF activity_method(method) = S_pushed
    THEN IF repo.pushed_at = None
         THEN [absent |-> TRUE, date |-> 0, raised |-> FALSE,
               out |-> <<>>, trace |-> <<>>]
         ELSE [absent |-> FALSE, date |-> parse(repo.pushed_at),
               raised |-> FALSE, out |-> <<>>, trace |-> <<>>]
    ELSE [absent |-> TRUE, date |-> 0, raised |-> TRUE,
          out |-> <<>>, trace |-> <<>>]

(***************************************************************************)
(* The body of the for loop of get_inactive_repos for one repository.      *)
(***************************************************************************)
Visibility(repo) == IF repo.private THEN "private" ELSE "public"

IsStale_AtLeast(days_inactive, threshold, repo) ==
    days_inactive >= threshold /\ ~repo.archived

IsStale(days_inactive, threshold, repo) ==
    days_inactive > threshold /\ ~repo.archived

BoolText(b) == IF b THEN "True" ELSE "False"

Classify(repo, active_date, threshold, clock) ==
    LET days_inactive == DaysBetween(clock, active_date)
    IN  IF ~IntOk(threshold)
        THEN [raised |-> TRUE, records |-> <<>>, out |-> <<>>]
        ELSE IF IsStale(days_inactive, IntOf(threshold), repo)
        THEN [raised |-> FALSE,
              records |-> <<<<repo.html_url, days_inactive,
                              DateOf(active_date), Visibility(repo)>>>>,
              out |-> <<Line("days_inactive", repo.html_url, days_inactive, <<>>)>>]
        ELSE [raised |-> FALSE, records |-> <<>>, out |-> <<>>]

\* the same with the activity date resolved before the exemption is looked at
LoopBody_DateFirst(repo, patterns, topics, method, threshold, clock, tresp, bresp) ==
    LET ex == is_repo_exempt(repo, patterns, topics, tresp)
        ad == get_active_date(repo, method, bresp)
        cl == Classify(repo, ad.date, threshold, clock)
        exRet == Event("is_repo_exempt", repo.html_url, BoolText(ex.ret), <<>>)
        adRet == Event("get_active_date", repo.html_url,
                       IF ad.absent THEN "None" ELSE "date", <<>>)
    IN  IF ad.raised
        THEN [raised |-> TRUE, records |-> <<>>, out |-> ad.out,
              trace |-> ad.trace]
        ELSE IF ex.raised
        THEN [raised |-> TRUE, records |-> <<>>, out |-> ad.out \o ex.out,
              trace |-> ad.trace \o <<adRet>> \o ex.trace]
        ELSE IF ex.ret
        THEN [raised |-> FALSE, records |-> <<>>, out |-> ad.out \o ex.out,
              trace |-> ad.trace \o <<adRet>> \o ex.trace \o <<exRet>>]
        ELSE IF ad.absent
        THEN [raised |-> FALSE, records |-> <<>>, out |-> ad.out \o ex.out,
              trace |-> ad.trace \o <<adRet>> \o ex.trace \o <<exRet>>]
        ELSE [raised |-> cl.raised, records |-> cl.records,
              out |-> ad.out \o ex.out \o cl.out,
              trace |-> ad.trace \o <<adRet>> \o ex.trace \o <<exRet>>]

LoopBody(repo, patterns, topics, method, threshold, clock, tresp, bresp) ==
    LET ex == is_repo_exempt(repo, patterns, topics, tresp)
        ad == get_active_date(repo, method, bresp)
        cl == Classify(repo, ad.date, threshold, clock)
        exRet == Event("is_repo_exempt", repo.html_url, BoolText(ex.ret), <<>>)
        adRet == Event("get_active_date", repo.html_url,
                       IF ad.absent THEN "None" ELSE "date", <<>>)
    IN  IF ex.raised
        THEN [raised |-> TRUE, records |-> <<>>, out |-> ex.out,
              trace |-> ex.trace]
        ELSE IF ex.ret
        THEN [raised |-> FALSE, records |-> <<>>, out |-> ex.out,
              trace |-> ex.trace \o <<exRet>>]
        ELSE IF ad.raised
        THEN [raised |-> TRUE, records |-> <<>>, out |-> ex.out \o ad.out,
              trace |-> ex.trace \o <<exRet>> \o ad.trace]
        ELSE IF ad.absent
        THEN [raised |-> FALSE, records |-> <<>>, out |-> ex.out \o ad.out,
              trace |-> ex.trace \o <<exRet>> \o ad.trace \o <<adRet>>]
        ELSE [raised |-> cl.raised, records |-> cl.records,
              out |-> ex.out \o ad.out \o cl.out,
              trace |-> ex.trace \o <<exRet>> \o ad.trace \o <<adRet>>]

(***************************************************************************)
(* get_int_env_var and auth_to_github.  An optional integer is <<>> or     *)
(* <<n>>.  login tells whether github3.login returns a connection.         *)
(***************************************************************************)
get_int_env_var(v) ==
    IF v = None \/ Strip(v) = <<>> THEN <<>>
    ELSE IF IntOk(v) THEN <<IntOf(v)>>
    ELSE <<>>

IntTruthy(r) == r # <<>> /\ r[1] # 0

\* the same with the token branches tried before the app branch
auth_to_github_TokenFirst(e, login) ==
    LET gh_app_id == get_int_env_var(e.GH_APP_ID)
        gh_app_private_key_bytes ==
            IF e.GH_APP_PRIVATE_KEY = None THEN <<>> ELSE e.GH_APP_PRIVATE_KEY
        gh_app_installation_id == get_int_env_var(e.GH_APP_INSTALLATION_ID)
        ghe == IF e.GH_ENTERPRISE_URL = None THEN <<>> ELSE Strip(e.GH_ENTERPRISE_URL)
        token == e.GH_TOKEN
    IN  IF ghe # <<>> /\ Truthy(token)
        THEN [raised |-> FALSE, conn |-> "enterprise"]
        ELSE IF Truthy(token)
        THEN IF login THEN [raised |-> FALSE, conn |-> "token"]
             ELSE [raised |-> TRUE, conn |-> "none"]
        ELSE IF IntTruthy(gh_app_id) /\ gh_app_private_key_bytes # <<>>
                /\ IntTruthy(gh_app_installation_id)
        THEN [raised |-> FALSE, conn |-> "app"]
        ELSE [raised |-> TRUE, conn |-> "none"]

auth_to_github(e, login) ==
    LET gh_app_id == get_int_env_var(e.GH_APP_ID)
        gh_app_private_key_bytes ==
            IF e.GH_APP_PRIVATE_KEY = None THEN <<>> ELSE e.GH_APP_PRIVATE_KEY
        gh_app_installation_id == get_int_env_var(e.GH_APP_INSTALLATION_ID)
        ghe == IF e.GH_ENTERPRISE_URL = None THEN <<>> ELSE Strip(e.GH_ENTERPRISE_URL)
        token == e.GH_TOKEN
    IN  IF IntTruthy(gh_app_id) /\ gh_app_private_key_bytes # <<>>
           /\ IntTruthy(gh_app_installation_id)
        THEN [raised |-> FALSE, conn |-> "app"]
        ELSE IF ghe # <<>> /\ Truthy(token)
        THEN [raised |-> FALSE, conn |-> "enterprise"]
        ELSE IF Truthy(token)
        THEN IF login THEN [raised |-> FALSE, conn |-> "token"]
             ELSE [raised |-> TRUE, conn |-> "none"]
        ELSE [raised |-> TRUE, conn |-> "none"]

(***************************************************************************)
(* Texts written by the emitters are sequences of tokens.                  *)
(***************************************************************************)
Tok(kind, val) == [kind |-> kind, val |-> val]

\* json.dumps of one dict, keys in insertion order
DumpObject(obj) ==
    <<Tok("punct", <<"{">>),
      Tok("key", <<"url">>), Tok("punct", <<":">>), Tok("str", obj.url),
      Tok("punct", <<",">>),
      Tok("key", <<"daysInactive">>), Tok("punct", <<":">>),
      Tok("num", <<obj.daysInactive>>),
      Tok("punct", <<",">>),
      Tok("key", <<"lastPushDate">>), Tok("punct", <<":">>),
      Tok("date", <<obj.lastPushDate>>),
      Tok("punct", <<",">>),
      Tok("key", <<"visibility">>), Tok("punct", <<":">>),
      Tok("word", <<obj.visibility>>),
      Tok("punct", <<"}">>)>>

RECURSIVE DumpObjects(_)
DumpObjects(objs) ==
    IF objs = <<>> THEN <<>>
    ELSE IF Len(objs) = 1 THEN DumpObject(objs[1])
    ELSE DumpObject(objs[1]) \o <<Tok("punct", <<",">>)>> \o DumpObjects(Tail(objs))

json_dumps(objs) ==
    <<Tok("punct", <<"[">>)>> \o DumpObjects(objs) \o <<Tok("punct", <<"]">>)>>

\* the same with the date put under daysInactive
JsonDict_DateAsDays(rec) ==
    [url |-> rec[1], daysInactive |-> rec[3], lastPushDate |-> rec[3],
     visibility |-> rec[4]]

\* the dict output_to_json builds from one tuple
JsonDict(rec) ==
    [url |-> rec[1], daysInactive |-> rec[2], lastPushDate |-> rec[3],
     visibility |-> rec[4]]

output_to_json_text(records) ==
    json_dumps([k \in DOMAIN records |-> JsonDict(records[k])])

\* json.loads restricted to what json_dumps writes: the objects, in order
RECURSIVE json_loads_from(_, _)
json_loads_from(text, k) ==
    IF k > Len(text) \/ text[k] = Tok("punct", <<"]">>) THEN <<>>
    ELSE IF text[k] = Tok("punct", <<"{">>)
    THEN <<[url |-> text[k + 3].val, daysInactive |-> text[k + 7].val[1],
            lastPushDate |-> text[k + 11].val[1],
            visibility |-> text[k + 15].val[1]]>>
         \o json_loads_from(text, k + 17)
    ELSE json_loads_from(text, k + 1)

json_loads(text) == json_loads_from(text, 2)

(***************************************************************************)
(* list.sort(key=lambda x: x[1], reverse=True): stable, descending on the  *)
(* second component of the tuple.                                          *)
(***************************************************************************)
RECURSIVE InsertDesc_TiesReversed(_, _)
InsertDesc_TiesReversed(sorted, x) ==
    IF sorted = <<>> THEN <<x>>
    ELSE IF Head(sorted)[2] > x[2]
         THEN <<Head(sorted)>> \o InsertDesc_TiesReversed(Tail(sorted), x)
         ELSE <<x>> \o sorted

RECURSIVE InsertDesc(_, _)
InsertDesc(sorted, x) ==
    IF sorted = <<>> THEN <<x>>
    ELSE IF Head(sorted)[2] >= x[2]
         THEN <<Head(sorted)>> \o InsertDesc(Tail(sorted), x)
         ELSE <<x>> \o sorted

RECURSIVE SortDesc(_)
SortDesc(list) ==
    IF list = <<>> THEN <<>>
    ELSE InsertDesc(SortDesc(SubSeq(list, 1, Len(list) - 1)), list[Len(list)])

\* the markdown text write_to_markdown builds from the sorted list
MarkdownRow(rec) == <<Tok("row", rec), Tok("backslash_n", <<>>)>>

RECURSIVE MarkdownRows(_)
MarkdownRows(records) ==
    IF records = <<>> THEN <<>>
    ELSE MarkdownRow(Head(records)) \o MarkdownRows(Tail(records))

\* the same without line 201
markdown_text_NoSeparator(sorted, threshold) ==
    <<Tok("title", <<>>), Tok("backslash_n", <<>>), Tok("backslash_n", <<>>),
      Tok("description", threshold), Tok("backslash_n", <<>>),
      Tok("backslash_n", <<>>),
      Tok("header", <<>>), Tok("backslash_n", <<>>)>>
    \o MarkdownRows(sorted)

markdown_text(sorted, threshold) ==
    <<Tok("title", <<>>), Tok("backslash_n", <<>>), Tok("backslash_n", <<>>),
      Tok("description", threshold), Tok("backslash_n", <<>>),
      Tok("backslash_n", <<>>),
      Tok("header", <<>>), Tok("backslash_n", <<>>),
      Tok("separator", <<>>), Tok("backslash_n", <<>>)>>
    \o MarkdownRows(sorted)

\* the table rows of a markdown text, in order
MarkdownTable(text) ==
    LET rows == SelectSeq(text, LAMBDA t : t.kind = "row")
    IN  [k \in DOMAIN rows |-> rows[k].val]

(***************************************************************************)
(* output_to_json(inactive_repos) and write_to_markdown(inactive_repos,    *)
(* inactive_days_threshold) as functions of the list and of GITHUB_OUTPUT. *)
(***************************************************************************)
output_to_json_result(records, github_output) ==
    LET text == output_to_json_text(records)
    IN  [text |-> text,
         out |-> (IF Truthy(github_output)
                  THEN <<Line("adding_json", <<>>, 0, <<>>)>> ELSE <<>>)
                 \o <<Line("github_output", <<>>, 0, <<github_output>>),
                      Line("wrote_json", <<>>, 0, <<>>)>>,
         gh |-> IF Truthy(github_output)
                THEN <<[key |-> "inactiveRepos", text |-> text],
                       [key |-> "json", text |-> text]>>
                ELSE <<>>]

\* the same with sorted(inactive_repos) in place of inactive_repos.sort
write_to_markdown_result_SortsCopy(records, threshold, github_output) ==
    LET sorted == SortDesc(records)
        text == markdown_text(sorted, threshold)
    IN  [list |-> records,
         text |-> text,
         out |-> (IF Truthy(github_output)
                  THEN <<Line("adding_markdown", <<>>, 0, <<>>)>> ELSE <<>>)
                 \o <<Line("github_output", <<>>, 0, <<github_output>>),
                      Line("wrote_markdown", <<>>, 0, <<>>)>>,
         gh |-> IF Truthy(github_output)
                THEN <<[key |-> "markdown", text |-> text]>>
                ELSE <<>>]

write_to_markdown_result(records, threshold, github_output) ==
    LET sorted == SortDesc(records)
        text == markdown_text(sorted, threshold)
    IN  [list |-> sorted,
         text |-> text,
         out |-> (IF Truthy(github_output)
                  THEN <<Line("adding_markdown", <<>>, 0, <<>>)>> ELSE <<>>)
                 \o <<Line("github_output", <<>>, 0, <<github_output>>),
                      Line("wrote_markdown", <<>>, 0, <<>>)>>,
         gh |-> IF Truthy(github_output)
                THEN <<[key |-> "markdown", text |-> text]>>
                ELSE <<>>]

(***************************************************************************)
(* The environments, clocks and listings a run starts from.                *)
(***************************************************************************)
BaseEnv ==
    [GH_APP_ID |-> None, GH_APP_PRIVATE_KEY |-> None,
     GH_APP_INSTALLATION_ID |-> None, GH_ENTERPRISE_URL |-> None,
     GH_TOKEN |-> <<"t">>, INACTIVE_DAYS |-> <<"1">>, ORGANIZATION |-> None,
     EXEMPT_TOPICS |-> None, EXEMPT_REPOS |-> None, ACTIVITY_METHOD |-> None,
     GITHUB_OUTPUT |-> None]

Credentials ==
    {[id |-> None, key |-> None, inst |-> None, ghe |-> None, token |-> None],
     [id |-> None, key |-> None, inst |-> None, ghe |-> None, token |-> <<>>],
     [id |-> None, key |-> None, inst |-> None, ghe |-> None, token |-> <<"t">>],
     [id |-> None, key |-> None, inst |-> None, ghe |-> <<"u">>, token |-> None],
     [id |-> None, key |-> None, inst |-> None, ghe |-> <<"u">>, token |-> <<"t">>],
     [id |-> <<"7">>, key |-> <<"k">>, inst |-> <<"8">>, ghe |-> None, token |-> None],
     [id |-> <<"7">>, key |-> <<"k">>, inst |-> None, ghe |-> None, token |-> None]}

Thresholds == {None, <<>>, <<"1">>}

\* thresholds int() accepts that are not positive
NegativeThresholds == {<<"-", "1">>, <<"-", "2">>}

ThresholdEnvs == {[BaseEnv EXCEPT !.INACTIVE_DAYS = t] : t \in NegativeThresholds}

CredentialEnvs ==
    {[BaseEnv EXCEPT !.GH_APP_ID = c.id, !.GH_APP_PRIVATE_KEY = c.key,
                     !.GH_APP_INSTALLATION_ID = c.inst,
                     !.GH_ENTERPRISE_URL = c.ghe, !.GH_TOKEN = c.token,
                     !.INACTIVE_DAYS = t] : c \in Credentials, t \in Thresholds}

ExemptReposValues == {None, <<"c", "o", "n", "f", "-", "*", ",", " ", "d">>}
ExemptTopicsValues == {None, <<"k", ",", " ", "t">>}
ActivityMethods ==
    {None,
     <<"D", "e", "f", "a", "u", "l", "t", "_", "b", "r", "a", "n", "c", "h",
       "_", "u", "p", "d", "a", "t", "e", "d">>,
     <<"p", "u", "s", "h">>}

ScanEnvs ==
    {[BaseEnv EXCEPT !.EXEMPT_REPOS = r, !.EXEMPT_TOPICS = t] :
        r \in ExemptReposValues, t \in ExemptTopicsValues}
    \cup {[BaseEnv EXCEPT !.EXEMPT_REPOS = r, !.ACTIVITY_METHOD = m] :
        r \in ExemptReposValues, m \in ActivityMethods}

OutputEnvs ==
    {[BaseEnv EXCEPT !.ORGANIZATION = o, !.GITHUB_OUTPUT = g] :
        o \in {None, <<"o">>}, g \in {None, <<"g">>}}

Envs == CredentialEnvs \cup ScanEnvs \cup OutputEnvs \cup ThresholdEnvs

Clock == {20}

\* the names of the listed repositories, in the orders a listing gives them
NameOrders ==
    {<<<<"c", "o", "n", "f", "-", "x">>, <<"c", "o", "n", "f">>,
       <<"C", "o", "n", "f", "-", "x">>>>,
     <<<<"c", "o", "n", "f">>, <<"c", "o", "n", "f", "-", "x">>,
       <<"C", "o", "n", "f", "-", "x">>>>}

Names == UNION {Range(o) : o \in NameOrders}

PrivateNames == {<<"c", "o", "n", "f">>}

\* half a day after the clock, and 1, 2.5 and 3.5 days before it
Timestamps == {<<"1", "0", "T", "1">>, <<"0", "9", "T", "0">>,
               <<"0", "7", "T", "1">>, <<"0", "6", "T", "1">>}

\* the one timestamp archived repositories are listed with
ArchivedTimestamp == <<"0", "6", "T", "1">>

Repositories ==
    {[name |-> n, html_url |-> <<"/">> \o n, private |-> n \in PrivateNames,
      archived |-> FALSE, pushed_at |-> p] :
        n \in Names, p \in {None} \cup Timestamps}
    \cup {[name |-> n, html_url |-> <<"/">> \o n, private |-> n \in PrivateNames,
           archived |-> TRUE, pushed_at |-> ArchivedTimestamp] : n \in Names}

Listings ==
    {l \in SeqsUpTo(Repositories, MaxRepos) :
        \E o \in NameOrders :
            Len(l) <= Len(o) /\ \A k \in DOMAIN l : l[k].name = o[k]}

\* what repo.topics() can answer
TopicsResponses ==
    {[kind |-> "ok", names |-> <<>>, code |-> 200],
     [kind |-> "ok", names |-> <<<<"t">>>>, code |-> 200],
     [kind |-> "NotFoundError", names |-> <<>>, code |-> 404],
     [kind |-> "ForbiddenError", names |-> <<>>, code |-> 403]}

\* what repo.branch(repo.default_branch) can answer: the tip commit of a
\* repository is its last push; a repository never pushed to has no branch
BranchResponses(repo) ==
    {[kind |-> "NotFoundError", date |-> <<"0", "0", "T", "0">>]}
    \cup (IF repo.pushed_at = None THEN {}
          ELSE {[kind |-> "ok", date |-> repo.pushed_at],
                [kind |-> "ServerError", date |-> <<"0", "0", "T", "0">>]})

Init ==
    /\ env \in Envs
    /\ now \in Clock
    /\ repos \in Listings
    /\ pc = "start"
    /\ github_connection = "none"
    /\ i = 0
    /\ exempt_repos = <<>>
    /\ exempt_topics = <<>>
    /\ inactive_repos = <<>>
    /\ out = <<>>
    /\ trace = <<>>
    /\ json_file = <<>>
    /\ md_file = <<>>
    /\ gh_output = <<>>
    /\ probe = <<>>

(***************************************************************************)
(* main, lines 31-38: print, load the environment, authenticate.           *)
(***************************************************************************)
main_auth ==
    /\ pc = "start"
    /\ \E login \in BOOLEAN :
         LET a == auth_to_github(env, login)
         IN  /\ github_connection' = a.conn
             /\ pc' = IF a.raised THEN "aborted" ELSE "authed"
    /\ out' = Append(out, Line("starting", <<>>, 0, <<>>))
    /\ UNCHANGED <<env, now, repos, i, exempt_repos, exempt_topics,
                   inactive_repos, trace, json_file, md_file, gh_output, probe>>

\* main, lines 41-50: the threshold and the organization
ThresholdMissing_NoneOnly(v) == v = None

ThresholdMissing(v) == ~Truthy(v)

main_threshold ==
    /\ pc = "authed"
    /\ IF ThresholdMissing(env.INACTIVE_DAYS)
       THEN pc' = "aborted" /\ out' = out
       ELSE /\ pc' = "scan"
            /\ out' = IF Truthy(env.ORGANIZATION) THEN out
                      ELSE Append(out, Line("no_organization", <<>>, 0, <<>>))
    /\ UNCHANGED <<env, now, repos, github_connection, i, exempt_repos,
                   exempt_topics, inactive_repos, trace, json_file, md_file,
                   gh_output, probe>>

(***************************************************************************)
(* get_inactive_repos, lines 110-124: request the listing, read the        *)
(* exemption lists.                                                        *)
(***************************************************************************)
ExemptList(v) == IF Truthy(v) THEN SplitComma(RemoveSpaces(v)) ELSE <<>>

scan_begin ==
    /\ pc = "scan"
    /\ trace' = Append(trace,
                       IF Truthy(env.ORGANIZATION)
                       THEN Event("organization_repositories", <<>>, "ok", <<>>)
                       ELSE Event("owner_repositories", <<>>, "ok", <<>>))
    /\ exempt_topics' = ExemptList(env.EXEMPT_TOPICS)
    /\ exempt_repos' = ExemptList(env.EXEMPT_REPOS)
    /\ out' = out
              \o (IF Truthy(env.EXEMPT_TOPICS)
                  THEN <<Line("exempt_topics", <<>>, 0, ExemptList(env.EXEMPT_TOPICS))>>
                  ELSE <<>>)
              \o (IF Truthy(env.EXEMPT_REPOS)
                  THEN <<Line("exempt_repos", <<>>, 0, ExemptList(env.EXEMPT_REPOS))>>
                  ELSE <<>>)
    /\ pc' = "loop"
    /\ UNCHANGED <<env, now, repos, github_connection, i, inactive_repos,
                   json_file, md_file, gh_output, probe>>

\* get_inactive_repos, lines 126-143: one turn of the for loop
scan_repo ==
    /\ pc = "loop"
    /\ i < Len(repos)
    /\ \E tresp \in TopicsResponses, bresp \in BranchResponses(repos[i + 1]) :
         LET b == LoopBody(repos[i + 1], exempt_repos, exempt_topics,
                           env.ACTIVITY_METHOD, env.INACTIVE_DAYS, now,
                           tresp, bresp)
         IN  /\ inactive_repos' = inactive_repos \o b.records
             /\ out' = out \o b.out
             /\ trace' = trace \o b.trace
             /\ pc' = IF b.raised THEN "aborted" ELSE "loop"
    /\ i' = i + 1
    /\ UNCHANGED <<env, now, repos, github_connection, exempt_repos,
                   exempt_topics, json_file, md_file, gh_output, probe>>

\* get_inactive_repos, lines 144-148: the count line and the return
\* the same leaving the loop at any turn
scan_end_Early ==
    /\ pc = "loop"
    /\ i <= Len(repos)
    /\ out' = Append(out, Line("found", IF Truthy(env.ORGANIZATION)
                                        THEN env.ORGANIZATION ELSE <<>>,
                               Len(inactive_repos), <<>>))
    /\ pc' = "scanned"
    /\ UNCHANGED <<env, now, repos, github_connection, i, exempt_repos,
                   exempt_topics, inactive_repos, trace, json_file, md_file,
                   gh_output, probe>>

\* the same counting the listed repositories
scan_end_CountsListed ==
    /\ pc = "loop"
    /\ i = Len(repos)
    /\ out' = Append(out, Line("found", IF Truthy(env.ORGANIZATION)
                                        THEN env.ORGANIZATION ELSE <<>>,
                               Len(repos), <<>>))
    /\ pc' = "scanned"
    /\ UNCHANGED <<env, now, repos, github_connection, i, exempt_repos,
                   exempt_topics, inactive_repos, trace, json_file, md_file,
                   gh_output, probe>>

scan_end ==
    /\ pc = "loop"
    /\ i = Len(repos)
    /\ out' = Append(out, Line("found", IF Truthy(env.ORGANIZATION)
                                        THEN env.ORGANIZATION ELSE <<>>,
                               Len(inactive_repos), <<>>))
    /\ pc' = "scanned"
    /\ UNCHANGED <<env, now, repos, github_connection, i, exempt_repos,
                   exempt_topics, inactive_repos, trace, json_file, md_file,
                   gh_output, probe>>

(***************************************************************************)
(* main, lines 58-62, with the two emitters.                               *)
(***************************************************************************)
main_no_stale ==
    /\ pc = "scanned"
    /\ inactive_repos = <<>>
    /\ out' = Append(out, Line("no_stale_repos", <<>>, 0, <<>>))
    /\ pc' = "done"
    /\ UNCHANGED <<env, now, repos, github_connection, i, exempt_repos,
                   exempt_topics, inactive_repos, trace, json_file, md_file,
                   gh_output, probe>>

\* the same without the test of line 58
output_to_json_Unguarded ==
    /\ pc = "scanned"
    /\ LET r == output_to_json_result(inactive_repos, env.GITHUB_OUTPUT)
       IN  /\ json_file' = r.text
           /\ gh_output' = gh_output \o r.gh
           /\ out' = out \o r.out
    /\ pc' = "json_done"
    /\ UNCHANGED <<env, now, repos, github_connection, i, exempt_repos,
                   exempt_topics, inactive_repos, trace, md_file, probe>>

output_to_json ==
    /\ pc = "scanned"
    /\ inactive_repos # <<>>
    /\ LET r == output_to_json_result(inactive_repos, env.GITHUB_OUTPUT)
       IN  /\ json_file' = r.text
           /\ gh_output' = gh_output \o r.gh
           /\ out' = out \o r.out
    /\ pc' = "json_done"
    /\ UNCHANGED <<env, now, repos, github_connection, i, exempt_repos,
                   exempt_topics, inactive_repos, trace, md_file, probe>>

write_to_markdown ==
    /\ pc = "json_done"
    /\ LET r == write_to_markdown_result(inactive_repos, env.INACTIVE_DAYS,
                                         env.GITHUB_OUTPUT)
       IN  /\ inactive_repos' = r.list
           /\ md_file' = r.text
           /\ gh_output' = gh_output \o r.gh
           /\ out' = out \o r.out
    /\ pc' = "done"
    /\ UNCHANGED <<env, now, repos, github_connection, i, exempt_repos,
                   exempt_topics, trace, json_file, probe>>

Next ==
    \/ main_auth
    \/ main_threshold
    \/ scan_begin
    \/ scan_repo
    \/ scan_end
    \/ main_no_stale
    \/ output_to_json
    \/ write_to_markdown

Spec == Init /\ [][Next]_vars

(***************************************************************************)
(* What the claims speak of, read off the listing, the environment and the *)
(* answers the API gave.                                                   *)
(***************************************************************************)
Returned == pc \in {"scanned", "json_done", "done"}

Examined == {repos[k] : k \in 1..i}

Answers(what, repo) ==
    SelectSeq(trace, LAMBDA e : e.what = what /\ e.url = repo.html_url)

ConfiguredPatterns == ExemptList(env.EXEMPT_REPOS)
ConfiguredTopics == ExemptList(env.EXEMPT_TOPICS)

ExemptByName(repo) ==
    \E k \in DOMAIN ConfiguredPatterns : fnmatchcase(repo.name, ConfiguredPatterns[k])

ExemptByTopic(repo) ==
    \E a \in Range(Answers("topics", repo)) :
        a.result = "ok" /\ Range(a.data) \cap Range(ConfiguredTopics) # {}

Exempt(repo) == ExemptByName(repo) \/ ExemptByTopic(repo)

Strategy == activity_method(env.ACTIVITY_METHOD)

\* the activity date of a repository, as a set: empty when it is not resolvable
ActivityDates(repo) ==
    IF Strategy = S_pushed
    THEN IF repo.pushed_at = None THEN {} ELSE {parse(repo.pushed_at)}
    ELSE IF Strategy = S_default_branch_updated
    THEN {parse(a.data[1]) : a \in {b \in Range(Answers("branch", repo)) : b.result = "ok"}}
    ELSE {}

DaysInactive(date) == (now - date) \div 2

Threshold == IntOf(env.INACTIVE_DAYS)

ShouldBeReported(repo) ==
    /\ ~Exempt(repo)
    /\ ~repo.archived
    /\ \E d \in ActivityDates(repo) : DaysInactive(d) > Threshold

RecordsOf(repo) == SelectSeq(inactive_repos, LAMBDA rec : rec[1] = repo.html_url)

\* C1: when get_inactive_repos returns, each listed repository that is not
\* exempt, has a resolvable activity date, is not archived and has been
\* inactive for strictly more days than the threshold has exactly one
\* record, and no other repository has any.
C1_RecordIffStale ==
    Returned =>
        /\ \A k \in DOMAIN repos :
             Len(RecordsOf(repos[k])) = IF ShouldBeReported(repos[k]) THEN 1 ELSE 0
        /\ \A k \in DOMAIN inactive_repos :
             \E r \in Range(repos) : inactive_repos[k][1] = r.html_url

\* a returned scan that reported one repository and passed over an archived
\* one and one whose inactivity equals the threshold
C1_Witness ==
    /\ Returned
    /\ \E r \in Range(repos) : ShouldBeReported(r) /\ Len(RecordsOf(r)) = 1
    /\ \E r \in Range(repos) :
         /\ ~Exempt(r)
         /\ \/ r.archived /\ \E d \in ActivityDates(r) : DaysInactive(d) > Threshold
            \/ \E d \in ActivityDates(r) : DaysInactive(d) = Threshold
         /\ Len(RecordsOf(r)) = 0

SortedByDaysDescending(days) ==
    \A a, b \in DOMAIN days : a < b => days[a] >= days[b]

PositionInListing(url) == CHOOSE k \in DOMAIN repos : repos[k].html_url = url

\* C2: the sequence get_inactive_repos returns is sorted by daysInactive
\* descending, records of equal daysInactive in encounter order.
C2_ReturnedSorted ==
    pc = "scanned" =>
        /\ SortedByDaysDescending([k \in DOMAIN inactive_repos |-> inactive_repos[k][2]])
        /\ \A a, b \in DOMAIN inactive_repos :
             (a < b /\ inactive_repos[a][2] = inactive_repos[b][2])
                 => PositionInListing(inactive_repos[a][1])
                        < PositionInListing(inactive_repos[b][1])

\* C3: in a complete run with at least one stale repository the array in
\* stale_repos.json lists the records by daysInactive descending, in the
\* same order as the rows of the table in stale_repos.md.
C3_JsonInMarkdownOrder ==
    (pc = "done" /\ inactive_repos # <<>>) =>
        LET objects == json_loads(json_file)
            rows == MarkdownTable(md_file)
        IN  /\ SortedByDaysDescending([k \in DOMAIN objects |-> objects[k].daysInactive])
            /\ [k \in DOMAIN objects |-> objects[k].url]
                   = [k \in DOMAIN rows |-> rows[k][1]]

(***************************************************************************)
(* write_to_markdown called on its own: probe is the list as the caller    *)
(* passed it.                                                              *)
(***************************************************************************)
RecordUrls == {<<"/", "a">>, <<"/", "b">>, <<"/", "c">>}
RecordDays == {2, 3}
Records == {<<u, d, 7, "public">> : u \in RecordUrls, d \in RecordDays}

InitMarkdown ==
    /\ env \in {[BaseEnv EXCEPT !.GITHUB_OUTPUT = g] : g \in {None, <<"g">>}}
    /\ now \in Clock
    /\ repos = <<>>
    /\ pc = "json_done"
    /\ github_connection = "none"
    /\ i = 0
    /\ exempt_repos = <<>>
    /\ exempt_topics = <<>>
    /\ inactive_repos \in SeqsUpTo(Records, MaxRecords)
    /\ out = <<>>
    /\ trace = <<>>
    /\ json_file = <<>>
    /\ md_file = <<>>
    /\ gh_output = <<>>
    /\ probe = inactive_repos

NextMarkdown == write_to_markdown

SpecMarkdown == InitMarkdown /\ [][NextMarkdown]_vars

Bijections(n) ==
    {f \in [1..n -> 1..n] : \A a, b \in 1..n : a # b => f[a] # f[b]}

\* C4: the rows write_to_markdown writes are the input records, one row
\* each, by daysInactive descending, records of equal daysInactive in their
\* original relative order.
C4_RowsStableSorted ==
    pc = "done" =>
        LET rows == MarkdownTable(md_file)
        IN  /\ Len(rows) = Len(probe)
            /\ \E f \in Bijections(Len(probe)) :
                 /\ \A k \in DOMAIN rows : rows[k] = probe[f[k]]
                 /\ \A a, b \in DOMAIN rows :
                      a < b => \/ rows[a][2] > rows[b][2]
                               \/ rows[a][2] = rows[b][2] /\ f[a] < f[b]

\* a table written from a list that was out of order and had a tie
C4_Witness ==
    /\ pc = "done"
    /\ md_file # <<>>
    /\ \E a, b \in DOMAIN probe : a < b /\ probe[a][2] < probe[b][2]
    /\ \E a, b \in DOMAIN probe :
         a < b /\ probe[a][2] = probe[b][2] /\ probe[a][1] # probe[b][1]

(***************************************************************************)
(* is_repo_exempt called on its own: probe holds the arguments, what       *)
(* repo.topics() would answer, and the value returned.                     *)
(***************************************************************************)
S_conf == <<"c", "o", "n", "f">>
S_repo == <<"r", "e", "p", "o">>
S_data_repo == <<"d", "a", "t", "a", "-", "r", "e", "p", "o">>
S_Conf_x == <<"C", "o", "n", "f", "-", "x">>
S_conf_star == <<"c", "o", "n", "f", "-", "*">>
S_data_star == <<"d", "a", "t", "a", "-", "*">>
S_repo1 == <<"r", "e", "p", "o", "1">>
S_repo_dash == <<"r", "e", "p", "o", "-">>

ProbeNames ==
    SeqsUpTo({"a", "A"}, 2) \cup {S_conf, S_repo, S_data_repo, S_Conf_x}

PatternChars == {"a", "A", "*", "?", "[", "]", "!"}

ProbePatterns == SeqsUpTo(PatternChars, MaxPatLen)

SmallPatternLists ==
    {<<>>, <<S_conf_star>>, <<S_repo1, S_repo_dash>>, <<S_data_star, S_conf_star>>}
    \cup {<<p, q>> : p, q \in SeqsUpTo({"a", "*"}, 1)}

PatternLists == SmallPatternLists \cup {<<p>> : p \in ProbePatterns}

TopicLists == {<<>>, <<<<"t">>>>, <<<<"k">>, <<"t">>>>}

ProbeCalls ==
    {[name |-> n, patterns |-> l, topics |-> <<>>,
      resp |-> [kind |-> "ok", names |-> <<>>, code |-> 200], ret |-> FALSE] :
        n \in ProbeNames, l \in PatternLists}
    \cup {[name |-> n, patterns |-> l, topics |-> t, resp |-> r, ret |-> FALSE] :
        n \in ProbeNames, l \in SmallPatternLists, t \in TopicLists,
        r \in TopicsResponses}

InitExempt ==
    /\ env = BaseEnv
    /\ now \in Clock
    /\ repos = <<>>
    /\ pc = "call_is_repo_exempt"
    /\ github_connection = "none"
    /\ i = 0
    /\ exempt_repos = <<>>
    /\ exempt_topics = <<>>
    /\ inactive_repos = <<>>
    /\ out = <<>>
    /\ trace = <<>>
    /\ json_file = <<>>
    /\ md_file = <<>>
    /\ gh_output = <<>>
    /\ probe \in ProbeCalls

call_is_repo_exempt ==
    /\ pc = "call_is_repo_exempt"
    /\ LET r == is_repo_exempt([name |-> probe.name, html_url |-> <<"/">> \o probe.name],
                               probe.patterns, probe.topics, probe.resp)
       IN  /\ probe' = [probe EXCEPT !.ret = r.ret]
           /\ out' = out \o r.out
           /\ trace' = trace \o r.trace
           /\ pc' = IF r.raised THEN "raised" ELSE "returned"
    /\ UNCHANGED <<env, now, repos, github_connection, i, exempt_repos,
                   exempt_topics, inactive_repos, json_file, md_file, gh_output>>

NextExempt == call_is_repo_exempt

SpecExempt == InitExempt /\ [][NextExempt]_vars

(***************************************************************************)
(* Shell-style matching stated on its own: a pattern is a sequence of      *)
(* elements, each taking one character of the name except "*", which takes *)
(* any run; the pattern matches when the elements take the whole name.     *)
(***************************************************************************)
RECURSIVE GlobElements(_, _)
GlobElements(pat, p) ==
    IF p > Len(pat) THEN <<>>
    ELSE IF pat[p] = "*" THEN <<[kind |-> "run", of |-> <<>>]>> \o GlobElements(pat, p + 1)
    ELSE IF pat[p] = "?" THEN <<[kind |-> "one", of |-> <<>>]>> \o GlobElements(pat, p + 1)
    ELSE IF pat[p] = "[" /\ ClassEnd(pat, p) # 0
    THEN <<[kind |-> "class", of |-> SubSeq(pat, p + 1, ClassEnd(pat, p) - 1)]>>
         \o GlobElements(pat, ClassEnd(pat, p) + 1)
    ELSE <<[kind |-> "char", of |-> <<pat[p]>>]>> \o GlobElements(pat, p + 1)

Takes(element, c) ==
    CASE element.kind = "one" -> TRUE
      [] element.kind = "char" -> c = element.of[1]
      [] element.kind = "class" ->
            IF Head(element.of) = "!" THEN c \notin Range(Tail(element.of))
            ELSE c \in Range(element.of)
      [] OTHER -> FALSE

\* the lengths of the prefixes of name the first k elements can take
RECURSIVE PrefixesTaken(_, _, _)
PrefixesTaken(name, elements, k) ==
    IF k = 0 THEN {0}
    ELSE LET before == PrefixesTaken(name, elements, k - 1)
         IN  IF elements[k].kind = "run"
             THEN {q \in 0..Len(name) : \E b \in before : b <= q}
             ELSE {b + 1 : b \in {c \in before :
                                      c < Len(name) /\ Takes(elements[k], name[c + 1])}}

GlobMatchesWholeName(name, pat) ==
    LET elements == GlobElements(pat, 1)
    IN  Len(name) \in PrefixesTaken(name, elements, Len(elements))

ShouldBeExempt(call) ==
    \/ /\ call.patterns # <<>>
       /\ \E k \in DOMAIN call.patterns : GlobMatchesWholeName(call.name, call.patterns[k])
    \/ /\ call.topics # <<>>
       /\ call.resp.kind = "ok"
       /\ Range(call.resp.names) \cap Range(call.topics) # {}

\* C5: is_repo_exempt returns true exactly when the name matches one of a
\* non-empty list of glob patterns, case-sensitively and as a whole, or a
\* successfully fetched topic is in a non-empty topic list; so "conf" is not
\* exempt under ["conf-*"], "repo" is not under ["repo1", "repo-"] or [""],
\* and a name differing from a pattern only in case is not.
C5_ExemptIffMatch ==
    /\ pc = "returned" => (probe.ret <=> ShouldBeExempt(probe))
    /\ pc = "raised" => ~ShouldBeExempt(probe)
    /\ (pc = "returned" /\ probe.topics = <<>>) =>
         /\ (probe.name = S_conf /\ probe.patterns = <<S_conf_star>>) => ~probe.ret
         /\ (probe.name = S_repo /\ probe.patterns = <<S_repo1, S_repo_dash>>) => ~probe.ret
         /\ (probe.name = S_repo /\ probe.patterns = <<<<>>>>) => ~probe.ret
         /\ (probe.name = S_Conf_x /\ probe.patterns = <<S_conf_star>>) => ~probe.ret
         /\ (probe.name = S_data_repo /\ probe.patterns = <<S_data_star, S_conf_star>>)
                => probe.ret
         /\ (probe.name = <<"A">> /\ probe.patterns = <<<<"a">>>>) => ~probe.ret

\* is_repo_exempt has returned false for "conf" under ["conf-*"]
C5_Witness ==
    /\ pc = "returned"
    /\ probe.name = S_conf
    /\ probe.patterns = <<S_conf_star>>
    /\ ~probe.ret

(***************************************************************************)
(* Per-repository facts of a scan.                                         *)
(***************************************************************************)
FailedAnswers(what, repo) ==
    {a \in Range(Answers(what, repo)) : a.result # "ok"}

NotFoundAnswers(what, repo) ==
    {a \in Range(Answers(what, repo)) : a.result = "NotFoundError"}

LinesNaming(repo) == SelectSeq(out, LAMBDA l : l.url = repo.html_url)

HasLine(kind, repo) == \E l \in Range(LinesNaming(repo)) : l.kind = kind

ReturnedFrom(fn, repo, value) ==
    \E e \in Range(trace) : e.what = fn /\ e.url = repo.html_url /\ e.result = value

\* the scan did not stop at the k-th repository
WentPast(k) == pc = "aborted" => k < i

C7_DateErrorSkipsRepository ==
    \A k \in 1..i :
        FailedAnswers("branch", repos[k]) # {} =>
            /\ HasLine("date_exception", repos[k])
            /\ ReturnedFrom("get_active_date", repos[k], "None")
            /\ Len(RecordsOf(repos[k])) = 0
            /\ WentPast(k)

\* a returned scan in which resolving a date failed and a later repository
\* was reported
C7_Witness ==
    /\ Returned
    /\ \E k, m \in DOMAIN repos :
         /\ k < m
         /\ FailedAnswers("branch", repos[k]) # {}
         /\ Len(RecordsOf(repos[m])) = 1

NeverPushed(k) == Strategy = S_pushed /\ repos[k].pushed_at = None

\* C8, as claimed: under "pushed" a repository never pushed to yields no
\* record, no error and no output line at all, and the scan goes on.
C8_NoLineAtAll ==
    \A k \in 1..i :
        NeverPushed(k) =>
            /\ Len(RecordsOf(repos[k])) = 0
            /\ LinesNaming(repos[k]) = <<>>
            /\ WentPast(k)

\* C8, amended: under "pushed" a repository never pushed to yields no
\* record, no progress line and no activity-date notice, and resolving its
\* date raises nothing; the only lines naming it are those of its exemption
\* check, and the scan goes on unless that check raised.
C8_NeverPushedSkipped ==
    \A k \in 1..i :
        NeverPushed(k) =>
            /\ Len(RecordsOf(repos[k])) = 0
            /\ \A l \in Range(LinesNaming(repos[k])) : l.kind \in {"exempt", "no_topics"}
            /\ \/ WentPast(k)
               \/ FailedAnswers("topics", repos[k]) \ NotFoundAnswers("topics", repos[k]) # {}
            /\ ReturnedFrom("is_repo_exempt", repos[k], "False")
                   => ReturnedFrom("get_active_date", repos[k], "None")

\* a returned scan that passed over a never-pushed, non-exempt repository
\* and reported a later one
C8_Witness ==
    /\ Returned
    /\ \E k, m \in DOMAIN repos :
         /\ k < m
         /\ NeverPushed(k)
         /\ ~Exempt(repos[k])
         /\ Len(RecordsOf(repos[m])) = 1

\* C9: with a strategy that is neither "pushed" nor "default_branch_updated"
\* the run aborts before any repository is examined, whatever the listing.
C9_UnsupportedStrategyAbortsAtStartup ==
    Strategy \notin {S_pushed, S_default_branch_updated} =>
        /\ i = 0
        /\ pc \notin {"scanned", "json_done", "done"}

CredentialAbsent ==
    /\ ~Truthy(env.GH_TOKEN)
    /\ \/ ~Truthy(env.GH_APP_ID)
       \/ ~Truthy(env.GH_APP_PRIVATE_KEY)
       \/ ~Truthy(env.GH_APP_INSTALLATION_ID)

ThresholdAbsent == env.INACTIVE_DAYS \in {None, <<>>}

ListingRequested ==
    \E e \in Range(trace) : e.what \in {"organization_repositories", "owner_repositories"}

\* C10: without a credential, or without a threshold, main raises before
\* the listing is requested or a repository examined, and nothing is
\* written to stale_repos.json, stale_repos.md or $GITHUB_OUTPUT.
C10_MissingConfigurationAborts ==
    (CredentialAbsent \/ ThresholdAbsent) =>
        /\ pc \in {"start", "authed", "aborted"}
        /\ CredentialAbsent => pc # "authed"
        /\ ~ListingRequested
        /\ i = 0
        /\ json_file = <<>> /\ md_file = <<>> /\ gh_output = <<>>

\* main has raised for a missing threshold after authenticating
C10_Witness ==
    /\ pc = "aborted"
    /\ ThresholdAbsent
    /\ github_connection # "none"

(***************************************************************************)
(* The emitters within a run of main.                                      *)
(***************************************************************************)
CountLines(kind) == Len(SelectSeq(out, LAMBDA l : l.kind = kind))

CountOutputs(key) == Len(SelectSeq(gh_output, LAMBDA o : o.key = key))

\* how often a value occurs in a sequence
Occurrences(x, seq) == Cardinality({k \in DOMAIN seq : seq[k] = x})

SameBag(a, b) ==
    /\ Len(a) = Len(b)
    /\ \A x \in Range(a) \cup Range(b) : Occurrences(x, a) = Occurrences(x, b)

RecordOfObject(o) == <<o.url, o.daysInactive, o.lastPushDate, o.visibility>>

JsonRecords(text) ==
    LET objects == json_loads(text)
    IN  [k \in DOMAIN objects |-> RecordOfObject(objects[k])]

\* C11: when main completes, if get_inactive_repos found no stale
\* repository then neither emitter ran and stale_repos.json, stale_repos.md
\* and $GITHUB_OUTPUT are unwritten; if it found at least one then
\* output_to_json and write_to_markdown each ran exactly once, on the
\* records found.
C11_EmittersOnceOrNever ==
    pc = "done" =>
        IF inactive_repos = <<>>
        THEN /\ CountLines("wrote_json") = 0 /\ CountLines("wrote_markdown") = 0
             /\ json_file = <<>> /\ md_file = <<>> /\ gh_output = <<>>
             /\ CountLines("no_stale_repos") = 1
        ELSE /\ CountLines("wrote_json") = 1 /\ CountLines("wrote_markdown") = 1
             /\ CountLines("no_stale_repos") = 0
             /\ SameBag(JsonRecords(json_file), inactive_repos)
             /\ SameBag(MarkdownTable(md_file), inactive_repos)
             /\ \A key \in {"inactiveRepos", "json", "markdown"} :
                  CountOutputs(key) = IF Truthy(env.GITHUB_OUTPUT) THEN 1 ELSE 0

\* a run over a non-empty listing, with $GITHUB_OUTPUT set, that found
\* nothing stale and completed
C11_Witness ==
    /\ pc = "done"
    /\ inactive_repos = <<>>
    /\ repos # <<>>
    /\ Truthy(env.GITHUB_OUTPUT)
    /\ CountLines("found") = 1

(***************************************************************************)
(* The two emitters called on their own, in either order, on one list:     *)
(* probe holds the list as the caller built it, what output_to_json        *)
(* returned and the write calls made on each sink.                         *)
(***************************************************************************)
EmitterRecords ==
    {<<<<"/", "a">>, d, l, "public">> : d \in {2, 3}, l \in {6, 7}}
    \cup {<<<<"/", "b">>, d, 6, "private">> : d \in {2, 3}}

EmitterThresholds == {<<"1">>, <<"3", "0">>}

InitEmitters ==
    /\ env \in {[BaseEnv EXCEPT !.GITHUB_OUTPUT = g, !.INACTIVE_DAYS = t] :
                    g \in {None, <<"g">>}, t \in EmitterThresholds}
    /\ now \in Clock
    /\ repos = <<>>
    /\ pc = "call_emitters"
    /\ github_connection = "none"
    /\ i = 0
    /\ exempt_repos = <<>>
    /\ exempt_topics = <<>>
    /\ inactive_repos \in SeqsUpTo(EmitterRecords, MaxRecords)
    /\ out = <<>>
    /\ trace = <<>>
    /\ json_file = <<>>
    /\ md_file = <<>>
    /\ gh_output = <<>>
    /\ probe = [list |-> inactive_repos, returned |-> <<>>,
                json_writes |-> <<>>, md_writes |-> <<>>]

call_output_to_json ==
    /\ pc \in {"call_emitters", "after_markdown"}
    /\ LET r == output_to_json_result(inactive_repos, env.GITHUB_OUTPUT)
       IN  /\ json_file' = r.text
           /\ gh_output' = gh_output \o r.gh
           /\ out' = out \o r.out
           /\ probe' = [probe EXCEPT !.returned = r.text,
                                     !.json_writes = Append(@, r.text)]
    /\ pc' = IF pc = "call_emitters" THEN "after_json" ELSE "after_markdown_json"
    /\ UNCHANGED <<env, now, repos, github_connection, i, exempt_repos,
                   exempt_topics, inactive_repos, trace, md_file>>

call_write_to_markdown ==
    /\ pc \in {"call_emitters", "after_json"}
    /\ LET r == write_to_markdown_result(inactive_repos, env.INACTIVE_DAYS,
                                         env.GITHUB_OUTPUT)
       IN  /\ inactive_repos' = r.list
           /\ md_file' = r.text
           /\ gh_output' = gh_output \o r.gh
           /\ out' = out \o r.out
           /\ probe' = [probe EXCEPT !.md_writes = Append(@, r.text)]
    /\ pc' = IF pc = "call_emitters" THEN "after_markdown" ELSE "after_json_markdown"
    /\ UNCHANGED <<env, now, repos, github_connection, i, exempt_repos,
                   exempt_topics, trace, json_file>>

NextEmitters ==
    \/ call_output_to_json
    \/ call_write_to_markdown

SpecEmitters == InitEmitters /\ [][NextEmitters]_vars

JsonCalled == pc \in {"after_json", "after_json_markdown", "after_markdown_json"}

MarkdownCalled == pc \in {"after_markdown", "after_json_markdown", "after_markdown_json"}

\* the list output_to_json was given: the caller's list, as write_to_markdown
\* left it if that ran first
JsonInput == IF pc = "after_markdown_json" THEN inactive_repos ELSE probe.list

AuthEnvs ==
    {[BaseEnv EXCEPT !.GH_APP_ID = a, !.GH_APP_PRIVATE_KEY = k,
                     !.GH_APP_INSTALLATION_ID = n, !.GH_ENTERPRISE_URL = u,
                     !.GH_TOKEN = t] :
        a \in {None, <<" ">>, <<"0">>, <<"x">>, <<"7">>},
        k \in {None, <<>>, <<"k">>},
        n \in {None, <<"0">>, <<"8">>},
        u \in {None, <<" ">>, <<"u">>},
        t \in {None, <<>>, <<"t">>}}

InitAuth ==
    /\ env \in AuthEnvs
    /\ now \in Clock
    /\ repos = <<>>
    /\ pc = "call_auth_to_github"
    /\ github_connection = "none"
    /\ i = 0
    /\ exempt_repos = <<>>
    /\ exempt_topics = <<>>
    /\ inactive_repos = <<>>
    /\ out = <<>>
    /\ trace = <<>>
    /\ json_file = <<>>
    /\ md_file = <<>>
    /\ gh_output = <<>>
    /\ probe \in [login : BOOLEAN]

call_auth_to_github ==
    /\ pc = "call_auth_to_github"
    /\ LET a == auth_to_github(env, probe.login)
       IN  /\ github_connection' = a.conn
           /\ pc' = IF a.raised THEN "raised" ELSE "returned"
    /\ UNCHANGED <<env, now, repos, i, exempt_repos, exempt_topics,
                   inactive_repos, out, trace, json_file, md_file, gh_output,
                   probe>>

NextAuth == call_auth_to_github

SpecAuth == InitAuth /\ [][NextAuth]_vars

\* an app id or installation id is given: the text of a non-zero integer
IdGiven(v) == v # None /\ IsDigits(Strip(v)) /\ DigitsValue(Strip(v)) # 0

AppCredentialsGiven ==
    /\ IdGiven(env.GH_APP_ID)
    /\ Truthy(env.GH_APP_PRIVATE_KEY)
    /\ IdGiven(env.GH_APP_INSTALLATION_ID)

UrlGiven == env.GH_ENTERPRISE_URL # None /\ Strip(env.GH_ENTERPRISE_URL) # <<>>

TokenGiven == Truthy(env.GH_TOKEN)

\* C13: auth_to_github logs in as an app installation when app id, private
\* key and installation id are all given, whether or not a token is set;
\* otherwise connects to the enterprise URL when URL and token are both
\* non-empty; otherwise logs in with the token when it is non-empty;
\* otherwise raises.  It raises too when the login gave no connection, and
\* never returns without one.
C13_AuthPrecedence ==
    pc \in {"returned", "raised"} =>
        /\ IF AppCredentialsGiven
           THEN pc = "returned" /\ github_connection = "app"
           ELSE IF UrlGiven /\ TokenGiven
           THEN pc = "returned" /\ github_connection = "enterprise"
           ELSE IF TokenGiven /\ probe.login
           THEN pc = "returned" /\ github_connection = "token"
           ELSE pc = "raised"
        /\ pc = "returned" <=> github_connection # "none"

\* an app-installation login made although a token and an enterprise URL
\* were set as well
C13_Witness ==
    /\ pc = "returned"
    /\ github_connection = "app"
    /\ TokenGiven
    /\ UrlGiven

(***************************************************************************)
(* The document write_to_markdown writes, taken apart: its parts are the   *)
(* tokens other than the line breaks, which the code writes as the two     *)
(* characters backslash and n.                                             *)
(***************************************************************************)
IsBreak(t) == t.kind \in {"backslash_n", "newline"}

DocumentParts(text) == SelectSeq(text, LAMBDA t : ~IsBreak(t))

\* every part of the text is followed by a break
PartsDelimited(text) ==
    /\ text # <<>> => IsBreak(text[Len(text)])
    /\ \A k \in 1..(Len(text) - 1) : ~IsBreak(text[k]) => IsBreak(text[k + 1])

ProgressLines == SelectSeq(out, LAMBDA l : l.kind = "days_inactive")

PerRepositoryKinds == {"days_inactive", "exempt", "no_topics", "date_exception"}

IndexesOf(kind) == {k \in DOMAIN out : out[k].kind = kind}

\* C15: get_inactive_repos prints a progress line with the URL and the
\* daysInactive of a repository exactly when it produces a record for it,
\* in listing order; it prints one count line, after every line about a
\* repository, whose count is the number of records returned and which
\* names the organization exactly when one is configured.
C15_ProgressAndCountLines ==
    /\ pc = "loop" => IndexesOf("found") = {}
    /\ pc \in {"loop", "scanned"} =>
         /\ [k \in DOMAIN ProgressLines |-> <<ProgressLines[k].url, ProgressLines[k].n>>]
                = [k \in DOMAIN inactive_repos |-> <<inactive_repos[k][1], inactive_repos[k][2]>>]
         /\ \A a, b \in DOMAIN ProgressLines :
              a < b => PositionInListing(ProgressLines[a].url)
                           < PositionInListing(ProgressLines[b].url)
    /\ Returned =>
         /\ Cardinality(IndexesOf("found")) = 1
         /\ Len(ProgressLines) = Len(inactive_repos)
         /\ \A f \in IndexesOf("found") :
              /\ out[f].n = Len(inactive_repos)
              /\ out[f].url = IF Truthy(env.ORGANIZATION) THEN env.ORGANIZATION ELSE <<>>
              /\ \A k \in DOMAIN out : out[k].kind \in PerRepositoryKinds => k < f

\* a scan for an organization that returned two records
C15_Witness ==
    /\ pc = "scanned"
    /\ Truthy(env.ORGANIZATION)
    /\ Len(inactive_repos) = 2
    /\ Len(ProgressLines) = 2

(***************************************************************************)
(* A run as the interpreter executes it: main is one thread and each of    *)
(* its steps is taken once it is reached.                                  *)
(***************************************************************************)
FairSpec == Spec /\ WF_vars(Next)

Terminated == pc \in {"done", "aborted"}

AuthenticationFailed == github_connection = "none" /\ ~ListingRequested

StrategySupported == Strategy \in {S_pushed, S_default_branch_updated}

ExemptionChecks == SelectSeq(trace, LAMBDA e : e.what = "is_repo_exempt")

\* the whole listing was examined, each repository once, in listing order
FullScan ==
    /\ i = Len(repos)
    /\ [k \in DOMAIN ExemptionChecks |-> ExemptionChecks[k].url]
           = [k \in DOMAIN repos |-> repos[k].html_url]

OtherTopicFailures(repo) ==
    FailedAnswers("topics", repo) \ NotFoundAnswers("topics", repo)

ListingRequests ==
    SelectSeq(trace, LAMBDA e : e.what \in {"organization_repositories",
                                            "owner_repositories"})

ScanStarted == pc \in {"loop", "scanned", "json_done", "done"} \/ i > 0

\* C17: in one run the topics of a listed repository are fetched at most
\* once and its activity date is resolved at most once, whether the request
\* succeeds or fails, and the listing is requested once: never before the
\* scan starts, exactly once from then on.
C17_NoRetries ==
    /\ \A k \in DOMAIN repos :
         /\ Len(Answers("topics", repos[k])) <= 1
         /\ Len(Answers("branch", repos[k])) <= 1
         /\ Len(Answers("get_active_date", repos[k])) <= 1
         /\ Len(Answers("is_repo_exempt", repos[k])) <= 1
         /\ k > i => /\ Answers("topics", repos[k]) = <<>>
                     /\ Answers("branch", repos[k]) = <<>>
    /\ Len(ListingRequests) = IF ScanStarted THEN 1 ELSE 0

\* a completed scan of two repositories in which the branch request of the
\* first failed and that of the second succeeded, each made once
C17_Witness ==
    /\ Returned
    /\ Len(repos) = 2
    /\ FailedAnswers("branch", repos[1]) # {}
    /\ Len(Answers("branch", repos[1])) = 1
    /\ FailedAnswers("branch", repos[2]) = {}
    /\ Len(Answers("branch", repos[2])) = 1
    /\ Len(ListingRequests) = 1

(***************************************************************************)
(* Whole days of an elapsed duration given in half days.                   *)
(***************************************************************************)
TruncatedDays(halfdays) ==
    IF halfdays >= 0 THEN halfdays \div 2 ELSE 0 - ((0 - halfdays) \div 2)

\* C18: every record get_inactive_repos produces has daysInactive >= 0,
\* whatever integer threshold and whatever activity date, one later than
\* the clock included, and daysInactive is now minus the activity date in
\* whole days, partial days truncated toward zero.
C18_DaysNonNegativeTruncated ==
    pc \in {"loop", "scanned"} =>
        \A k \in DOMAIN inactive_repos :
            /\ inactive_repos[k][2] >= 0
            /\ \E r \in Range(repos) :
                 /\ r.html_url = inactive_repos[k][1]
                 /\ \E d \in ActivityDates(r) :
                      inactive_repos[k][2] = TruncatedDays(now - d)

(***************************************************************************)
(* The order of the calls made for one repository.                         *)
(***************************************************************************)
IndexesInTrace(what, repo) ==
    {k \in DOMAIN trace : trace[k].what = what /\ trace[k].url = repo.html_url}

Precedes(A, B) == \A a \in A, b \in B : a < b

FoundNotExempt(repo) ==
    {k \in IndexesInTrace("is_repo_exempt", repo) : trace[k].result = "False"}

\* C19: the topics of a repository are fetched only when the exempt-topic
\* list is non-empty and its name matched no exempt pattern; its activity
\* date is resolved only after it has been found not exempt, so nothing is
\* asked about the activity date of an exempt repository.
C19_CallsOrderedAndGuarded ==
    \A k \in DOMAIN repos :
        LET r == repos[k]
            dateCalls == IndexesInTrace("branch", r)
                             \cup IndexesInTrace("get_active_date", r)
        IN  /\ IndexesInTrace("topics", r) # {} =>
                 ConfiguredTopics # <<>> /\ ~ExemptByName(r)
            /\ Precedes(IndexesInTrace("topics", r), IndexesInTrace("is_repo_exempt", r))
            /\ dateCalls # {} =>
                 /\ FoundNotExempt(r) # {}
                 /\ ~Exempt(r)
                 /\ Precedes(FoundNotExempt(r), dateCalls)
            /\ ReturnedFrom("is_repo_exempt", r, "True") => dateCalls = {}

\* a completed scan under "default_branch_updated" of a repository exempt
\* by its name, for which nothing was requested, and of one not exempt,
\* whose branch was requested
C19_Witness ==
    /\ Returned
    /\ Strategy = S_default_branch_updated
    /\ \E k \in DOMAIN repos :
         /\ ExemptByName(repos[k])
         /\ ReturnedFrom("is_repo_exempt", repos[k], "True")
         /\ IndexesInTrace("branch", repos[k]) = {}
    /\ \E k \in DOMAIN repos :
         /\ ~Exempt(repos[k])
         /\ IndexesInTrace("branch", repos[k]) # {}

(***************************************************************************)
(* What the emitters do to the caller's list.                              *)
(***************************************************************************)
\* C20: output_to_json leaves the list it is given as it was; after
\* write_to_markdown the caller's list holds the same records, none added,
\* removed or altered, by daysInactive descending; so output_to_json called
\* after write_to_markdown writes the sorted order, and called before it
\* wrote the order the caller built.
C20_MarkdownSortsInPlace ==
    /\ pc = "after_json" =>
         /\ inactive_repos = probe.list
         /\ JsonRecords(json_file) = probe.list
    /\ MarkdownCalled =>
         /\ SameBag(inactive_repos, probe.list)
         /\ SortedByDaysDescending([k \in DOMAIN inactive_repos |-> inactive_repos[k][2]])
         /\ MarkdownTable(md_file) = inactive_repos
    /\ pc = "after_json_markdown" => JsonRecords(json_file) = probe.list
    /\ pc = "after_markdown_json" => JsonRecords(json_file) = inactive_repos

\* both emitters have run, output_to_json first, on a list that was not in
\* order: the file holds the caller's order, the list no longer does
C20_Witness ==
    /\ pc = "after_json_markdown"
    /\ inactive_repos # probe.list
    /\ JsonRecords(json_file) = probe.list
    /\ JsonRecords(json_file) # MarkdownTable(md_file)

====
